---------------------------- MODULE Spec2Model ----------------------------
(***************************************************************************)
(* Model of the stereo capture scripts CaptureView/CaptureView.py and      *)
(* capture.py: the positions.txt parser, the grid interpolation, and the   *)
(* run() driver that issues one host render per (cell, direction, eye).    *)
(*                                                                         *)
(* Conventions of the model:                                               *)
(*  - text is a sequence of one-character strings; a file is a sequence    *)
(*    of lines (readlines());                                              *)
(*  - Python floats are modelled as exact rationals <<num, den>> in lowest *)
(*    terms (den > 0), so rounding error is outside the model;             *)
(*  - time is counted in sleeps of 0.1 s (tenths of a second);             *)
(*  - the host application, the photos directory and positions.txt exist   *)
(*    (os.makedirs, open and Application.get() succeed).                   *)
(***************************************************************************)
EXTENDS Integers, Sequences, FiniteSets, TLC

VARIABLES
    variant,     \* which script runs: "CaptureView" or "capture"
    file,        \* positions.txt: sequence of lines
    hasDesign,   \* app.activeProduct is a Fusion design
    pc,          \* position of run()
    prefix,      \* parsed job prefix
    positions,   \* parsed job cells, sequence of <<gx, gy>>
    ci,          \* index of the cell being rendered (for (gx, gy) in positions)
    di,          \* index of the direction being rendered (for dir_name, ... in dirs)
    eye,         \* "left" or "right"
    cameras,     \* number of camera configurations applied to the viewport
    requests,    \* render requests issued so far, in order
    files,       \* output files on disk: set of <<path, origin>>
    renderState, \* render_future.renderState of the host
    elapsed,     \* time.time() - t0, in tenths of a second
    delFailed,   \* os.remove raised (swallowed) for the current request
    messages,    \* messages shown to the user (ui.messageBox)
    op,          \* function harness: the function applied ("interp", "grid")
    args,        \* function harness: the drawn arguments
    result       \* function harness: the results so far, one per call

vars == <<variant, file, hasDesign, pc, prefix, positions, ci, di, eye, cameras,
          requests, files, renderState, elapsed, delFailed, messages,
          op, args, result>>

runVars == <<variant, file, hasDesign, pc, prefix, positions, ci, di, eye, cameras,
             requests, files, renderState, elapsed, delFailed, messages>>

pureVars == <<op, args, result>>

---------------------------------------------------------------------------
(* Bounds of the model *)

MaxLines == 3

\* lines of positions.txt in the runs checked for termination
MaxLiveLines == 2

MaxShortPolls == 1

MaxIndex == 6

GridMax == 11

---------------------------------------------------------------------------
(* Exact rational arithmetic standing for Python floats *)

Abs(n) == IF n < 0 THEN -n ELSE n

RECURSIVE GCD(_, _)
GCD(a, b) == IF b = 0 THEN a ELSE GCD(b, a % b)

Rat(n, d) ==
    LET s == IF d < 0 THEN -1 ELSE 1
        g == GCD(Abs(n), Abs(d))
    IN  <<(s * n) \div g, (s * d) \div g>>

RInt(n) == <<n, 1>>

\* sums and products are reduced before they are multiplied out, to keep the
\* intermediate numbers small
RAdd(a, b) ==
    LET l == (a[2] \div GCD(a[2], b[2])) * b[2]
    IN  Rat(a[1] * (l \div a[2]) + b[1] * (l \div b[2]), l)

RNeg(a) == <<-a[1], a[2]>>

RSub(a, b) == RAdd(a, RNeg(b))

RMul(a, b) ==
    LET g1 == GCD(Abs(a[1]), b[2])
        g2 == GCD(Abs(b[1]), a[2])
    IN  Rat((a[1] \div g1) * (b[1] \div g2), (a[2] \div g2) * (b[2] \div g1))

RDiv(a, b) == RMul(a, IF b[1] < 0 THEN <<-b[2], -b[1]>> ELSE <<b[2], b[1]>>)

RLe(a, b) == a[1] * b[2] <= b[1] * a[2]

\* a decimal literal with three fractional digits, e.g. 8.039 = Dec3(8039)
Dec3(n) == Rat(n, 1000)

---------------------------------------------------------------------------
(* Calibration constants *)

CM_PER_IN == Rat(254, 100)

GRID_Z_IN == Dec3(33577)

EYE_RAISE_IN == Dec3(2500)

EYE_Z_IN == RAdd(GRID_Z_IN, EYE_RAISE_IN)

X_FROM_GRID_Y_IN ==
    (0 :> Dec3(8039)) @@ (1 :> Dec3(16336)) @@ (5 :> Dec3(55519)) @@
    (9 :> Dec3(94702)) @@ (10 :> Dec3(102999))

Y_FROM_GRID_X_IN ==
    (0 :> Dec3(6020)) @@ (1 :> Dec3(14317)) @@ (5 :> Dec3(53500)) @@
    (9 :> Dec3(92683)) @@ (10 :> Dec3(100980))

---------------------------------------------------------------------------
(* Grid interpolator *)

\* sorted(knot_map.keys())
RECURSIVE sorted(_)
sorted(S) ==
    IF S = {} THEN <<>>
    ELSE LET m == CHOOSE x \in S : \A y \in S : x <= y
         IN  <<m>> \o sorted(S \ {m})

\* a slip: the loop always takes the first pair of keys
BracketIndexFirst(index, keys) == IF Len(keys) >= 2 THEN 1 ELSE 0

\* the for loop of _interp_linear: the first i with keys[i] <= index <= keys[i+1],
\* 0 when the loop ends without a break (k0, k1 stay None)
BracketIndex(index, keys) ==
    LET hits == {i \in 1..(Len(keys) - 1) : keys[i] <= index /\ index <= keys[i + 1]}
    IN  IF hits = {} THEN 0 ELSE CHOOSE i \in hits : \A j \in hits : i <= j

\* a slip: the two weights exchanged
InterpWeightedSwapped(index, k0, k1, v0, v1) ==
    LET t == RDiv(RInt(index - k0), RInt(k1 - k0))
    IN  RAdd(RMul(v0, t), RMul(v1, RSub(RInt(1), t)))

\* the final two lines of _interp_linear
InterpWeighted(index, k0, k1, v0, v1) ==
    LET t == RDiv(RInt(index - k0), RInt(k1 - k0))
    IN  RAdd(RMul(v0, RSub(RInt(1), t)), RMul(v1, t))

\* _interp_linear, returning the value and the return statement taken
InterpLinear(index, knot_map) ==
    IF index \in DOMAIN knot_map THEN [value |-> knot_map[index], via |-> "key"]
    ELSE
      LET keys == sorted(DOMAIN knot_map)
          n == Len(keys)
      IN  IF index <= keys[1] THEN [value |-> knot_map[keys[1]], via |-> "low"]
          ELSE IF index >= keys[n] THEN [value |-> knot_map[keys[n]], via |-> "high"]
          ELSE
            LET i == BracketIndex(index, keys)
            IN  IF i = 0 \/ keys[i + 1] = keys[i]
                THEN [value |-> knot_map[keys[1]], via |-> "fallback"]
                ELSE [value |-> InterpWeighted(index, keys[i], keys[i + 1],
                                               knot_map[keys[i]], knot_map[keys[i + 1]]),
                      via |-> "interp"]

inches_to_cm(x_in) == RMul(x_in, CM_PER_IN)

\* a slip: the axes not swapped
grid_to_model_in_unswapped(gx, gy) ==
    [mx |-> InterpLinear(gx, X_FROM_GRID_Y_IN).value,
     my |-> InterpLinear(gy, Y_FROM_GRID_X_IN).value,
     mz |-> GRID_Z_IN]

grid_to_model_in(gx, gy) ==
    [mx |-> InterpLinear(gy, X_FROM_GRID_Y_IN).value,
     my |-> InterpLinear(gx, Y_FROM_GRID_X_IN).value,
     mz |-> GRID_Z_IN]

\* a slip: the corner test asks for either index on the border
is_corner_either(gx, gy) == (gx \in {0, 10}) \/ (gy \in {0, 10})

is_corner(gx, gy) == (gx \in {0, 10}) /\ (gy \in {0, 10})

---------------------------------------------------------------------------
(* Plane geometry. The direction vectors are floats of the form a + b*sqrt(2)  *)
(* with a, b rational: such a number is the pair <<a, b>> of rationals.       *)

SZero == <<RInt(0), RInt(0)>>

SOne == <<RInt(1), RInt(0)>>

\* a rational as a number a + 0*sqrt(2)
SRat(r) == <<r, RInt(0)>>

SAdd(x, y) == <<RAdd(x[1], y[1]), RAdd(x[2], y[2])>>

SNeg(x) == <<RNeg(x[1]), RNeg(x[2])>>

SSub(x, y) == SAdd(x, SNeg(y))

SMul(x, y) ==
    <<RAdd(RMul(x[1], y[1]), RMul(RInt(2), RMul(x[2], y[2]))),
      RAdd(RMul(x[1], y[2]), RMul(x[2], y[1]))>>

\* 1/x for x # 0: 1/a, 1/(b*sqrt 2) = sqrt(2)/(2b), or the conjugate over the norm
SInv(x) ==
    IF x[2][1] = 0 THEN <<RDiv(RInt(1), x[1]), RInt(0)>>
    ELSE IF x[1][1] = 0 THEN <<RInt(0), RDiv(RInt(1), RMul(RInt(2), x[2]))>>
    ELSE LET n == RSub(RMul(x[1], x[1]), RMul(RInt(2), RMul(x[2], x[2])))
         IN  <<RDiv(x[1], n), RNeg(RDiv(x[2], n))>>

SDiv(x, y) == SMul(x, SInv(y))

RSign(a) == IF a[1] > 0 THEN 1 ELSE IF a[1] < 0 THEN -1 ELSE 0

\* the sign of a + b*sqrt(2): that of the part that is larger in magnitude
SSign(x) ==
    IF RSign(x[2]) = 0 THEN RSign(x[1])
    ELSE IF RSign(x[1]) = 0 \/ RSign(x[1]) = RSign(x[2]) THEN RSign(x[2])
    ELSE IF RLe(RMul(RInt(2), RMul(x[2], x[2])), RMul(x[1], x[1]))
         THEN RSign(x[1]) ELSE RSign(x[2])

SAbs(x) == IF SSign(x) < 0 THEN SNeg(x) ELSE x

IsSquare(n) == \E k \in 0..n : k * k = n

ISqrt(n) == CHOOSE k \in 0..n : k * k = n

\* the square root of a rational q >= 0 that is a square or twice a square
SSqrtRat(q) ==
    IF IsSquare(q[1]) /\ IsSquare(q[2]) THEN <<Rat(ISqrt(q[1]), ISqrt(q[2])), RInt(0)>>
    ELSE LET h == RDiv(q, RInt(2))
         IN  <<RInt(0), Rat(ISqrt(h[1]), ISqrt(h[2]))>>

\* math.hypot(vx, vy) = |vx| * sqrt(1 + (vy/vx)^2), or |vy| when vx = 0
Hypot(vx, vy) ==
    IF vx = SZero THEN SAbs(vy)
    ELSE LET r == SDiv(vy, vx)
             q == SAdd(SOne, SMul(r, r))
         IN  SMul(SAbs(vx), SSqrtRat(q[1]))

\* mag <= 1e-9 for mag >= 0. n/d <= 1e-9 iff d div n >= 10^9; (n/d)*sqrt(2) <= 1e-9
\* iff n = 1 and d >= 1414213563 (d below 2^31); a sum of two positive parts is larger
AtMostTiny(mag) ==
    IF mag[2][1] = 0 THEN mag[1][1] = 0 \/ (mag[1][2] \div mag[1][1]) >= 1000000000
    ELSE IF mag[1][1] = 0 THEN mag[2][1] = 1 /\ mag[2][2] >= 1414213563
    ELSE IF mag[1][1] > 0 /\ mag[2][1] > 0 THEN FALSE
    ELSE SSign(SSub(SRat(Rat(1, 1000000000)), mag)) >= 0

norm2d(vx, vy) ==
    LET mag == Hypot(vx, vy)
    IN  IF AtMostTiny(mag) THEN <<SZero, SZero>>
        ELSE <<SDiv(vx, mag), SDiv(vy, mag)>>

\* model_xy_cm of run: the cell in centimetres
model_xy_cm(gx, gy) ==
    LET m == grid_to_model_in(gx, gy)
    IN  <<SRat(inches_to_cm(m.mx)), SRat(inches_to_cm(m.my))>>

p_55 == model_xy_cm(5, 5)

p_50 == model_xy_cm(5, 0)

p_105 == model_xy_cm(10, 5)

north2 == norm2d(SSub(p_50[1], p_55[1]), SSub(p_50[2], p_55[2]))

east2 == norm2d(SSub(p_105[1], p_55[1]), SSub(p_105[2], p_55[2]))

south2 == <<SNeg(north2[1]), SNeg(north2[2])>>

west2 == <<SNeg(east2[1]), SNeg(east2[2])>>

ne2 == norm2d(SAdd(north2[1], east2[1]), SAdd(north2[2], east2[2]))

se2 == norm2d(SAdd(south2[1], east2[1]), SAdd(south2[2], east2[2]))

sw2 == norm2d(SAdd(south2[1], west2[1]), SAdd(south2[2], west2[2]))

nw2 == norm2d(SAdd(north2[1], west2[1]), SAdd(north2[2], west2[2]))

\* the vectors of dirs_cardinal and of dirs_diagonal, in list order
vectors_cardinal == <<north2, east2, south2, west2>>

vectors_diagonal == <<ne2, se2, sw2, nw2>>

EYE_SEPARATION_IN == Dec3(500)

HALF_BASE_IN == RDiv(EYE_SEPARATION_IN, RInt(2))

\* a slip: the right vector is the forward vector with its components exchanged
RightOfExchanged(fwd) == <<fwd[2], fwd[1]>>

\* right2 = (base_fwd2[1], -base_fwd2[0])
RightOf(fwd) == <<fwd[2], SNeg(fwd[1])>>

\* the body of the loop over the directions up to the two eye points, for the
\* d-th direction of a cell: the centre, the right vector, both eye positions, and
\* the point handed to the camera for eye e
EyePose(cell, d, e) ==
    LET m == grid_to_model_in(cell[1], cell[2])
        cx == SRat(inches_to_cm(m.mx))
        cy == SRat(inches_to_cm(m.my))
        cz == SRat(inches_to_cm(EYE_Z_IN))
        fwd == IF is_corner(cell[1], cell[2]) THEN vectors_diagonal[d]
               ELSE vectors_cardinal[d]
        right2 == RightOf(fwd)
        h == SRat(inches_to_cm(HALF_BASE_IN))
        left_eye_xy == <<SSub(cx, SMul(right2[1], h)), SSub(cy, SMul(right2[2], h))>>
        right_eye_xy == <<SAdd(cx, SMul(right2[1], h)), SAdd(cy, SMul(right2[2], h))>>
        xy == IF e = "left" THEN left_eye_xy ELSE right_eye_xy
    IN  [cx |-> cx, cy |-> cy, cz |-> cz, base_fwd2 |-> fwd,
         left_eye_xy |-> left_eye_xy, right_eye_xy |-> right_eye_xy,
         eye_pt |-> <<xy[1], xy[2], cz>>]

---------------------------------------------------------------------------
(* Text: str.strip, str.split, int(), str(int) *)

WhiteSpace == {" ", "\t"}

DigitChars == <<"0", "1", "2", "3", "4", "5", "6", "7", "8", "9">>

Digits == {DigitChars[i] : i \in 1..10}

DigitValue(c) == (CHOOSE i \in 1..10 : DigitChars[i] = c) - 1

RECURSIVE LStrip(_)
LStrip(s) == IF s # <<>> /\ Head(s) \in WhiteSpace THEN LStrip(Tail(s)) ELSE s

RECURSIVE RStrip(_)
RStrip(s) ==
    IF s # <<>> /\ s[Len(s)] \in WhiteSpace THEN RStrip(SubSeq(s, 1, Len(s) - 1)) ELSE s

\* ln.strip()
Strip(s) == RStrip(LStrip(s))

\* ln.split(sep): the fields between the separators, at least one
RECURSIVE Split(_, _)
Split(s, sep) ==
    IF \A i \in 1..Len(s) : s[i] # sep THEN <<s>>
    ELSE LET i == CHOOSE k \in 1..Len(s) : s[k] = sep /\ \A j \in 1..(k - 1) : s[j] # sep
         IN  <<SubSeq(s, 1, i - 1)>> \o Split(SubSeq(s, i + 1, Len(s)), sep)

\* the digits of a literal after its optional sign
Unsigned(t) == IF t # <<>> /\ Head(t) \in {"+", "-"} THEN Tail(t) ELSE t

\* whether int(s) returns (no ValueError): optional surrounding white space,
\* an optional sign, then one or more decimal digits
IntParses(s) ==
    LET u == Unsigned(Strip(s))
    IN  u # <<>> /\ \A i \in 1..Len(u) : u[i] \in Digits

RECURSIVE DigitsValue(_)
DigitsValue(u) ==
    IF u = <<>> THEN 0
    ELSE 10 * DigitsValue(SubSeq(u, 1, Len(u) - 1)) + DigitValue(u[Len(u)])

\* int(s), for s with IntParses(s)
IntOf(s) ==
    LET t == Strip(s)
        v == DigitsValue(Unsigned(t))
    IN  IF Head(t) = "-" THEN -v ELSE v

RECURSIVE NatToStr(_)
NatToStr(n) ==
    IF n < 10 THEN <<DigitChars[n + 1]>>
    ELSE NatToStr(n \div 10) \o <<DigitChars[(n % 10) + 1]>>

\* the f-string conversion {gx} of an int
IntToStr(n) == IF n < 0 THEN <<"-">> \o NatToStr(-n) ELSE NatToStr(n)

---------------------------------------------------------------------------
(* positions.txt *)

NoPrefix == [some |-> FALSE, val |-> <<>>]

\* a slip: the field count is not checked, the first two fields are taken
ParsePairNoCount(ln) ==
    LET parts == Split(ln, ",")
    IN  IF Len(parts) < 2 THEN <<>>
        ELSE IF IntParses(parts[1]) /\ IntParses(parts[2])
             THEN <<(<<IntOf(parts[1]), IntOf(parts[2])>>)>>
             ELSE <<>>

\* the try block of the loop body: the fields of one line as a cell, or none
ParsePair(ln) ==
    LET parts == Split(ln, ",")
    IN  IF Len(parts) # 2 THEN <<>>
        ELSE IF IntParses(parts[1]) /\ IntParses(parts[2])
             THEN <<(<<IntOf(parts[1]), IntOf(parts[2])>>)>>
             ELSE <<>>

\* the for loop of parse_positions_txt over the stripped lines, from line i on
RECURSIVE ParseLoop(_, _, _, _)
ParseLoop(lines, i, pfx, pos) ==
    IF i > Len(lines) THEN [prefix |-> pfx, positions |-> pos]
    ELSE LET ln == lines[i]
         IN  IF ln = <<>> \/ Head(ln) = "#" THEN ParseLoop(lines, i + 1, pfx, pos)
             ELSE IF ~pfx.some
                  THEN ParseLoop(lines, i + 1, [some |-> TRUE, val |-> ln], pos)
                  ELSE ParseLoop(lines, i + 1, pfx, pos \o ParsePair(ln))

\* a slip: a missing prefix is not reported
ParseNoRaise(f) ==
    LET r == ParseLoop([i \in 1..Len(f) |-> Strip(f[i])], 1, NoPrefix, <<>>)
    IN  [raised |-> FALSE, prefix |-> r.prefix.val, positions |-> r.positions]

\* parse_positions_txt: raises when no prefix line was found
parse_positions_txt(f) ==
    LET r == ParseLoop([i \in 1..Len(f) |-> Strip(f[i])], 1, NoPrefix, <<>>)
    IN  IF ~r.prefix.some
        THEN [raised |-> TRUE, prefix |-> <<>>, positions |-> <<>>]
        ELSE [raised |-> FALSE, prefix |-> r.prefix.val, positions |-> r.positions]

---------------------------------------------------------------------------
(* Directions and output files *)

Variants == {"CaptureView", "capture"}

dirs_cardinal == <<"north", "east", "south", "west">>

\* the diagonal labels of CaptureView.py
dirs_diagonal_CaptureView == <<"NE", "SE", "SW", "NW">>

\* the diagonal labels of capture.py
dirs_diagonal_capture == <<"ne", "se", "sw", "nw">>

dirs_diagonal(v) ==
    IF v = "CaptureView" THEN dirs_diagonal_CaptureView ELSE dirs_diagonal_capture

\* dirs = dirs_diagonal if is_corner(gx, gy) else dirs_cardinal
DirsOf(v, cell) ==
    IF is_corner(cell[1], cell[2]) THEN dirs_diagonal(v) ELSE dirs_cardinal

Eyes == <<"left", "right">>

\* os.path.join(out_dir, f"{prefix}_{gx}_{gy}_{dir_name}_{eye}.png"),
\* out_dir = photos/<prefix>
OutFile(pfx, cell, dir_name, e) ==
    <<"photos", "/">> \o pfx \o <<"/">> \o pfx \o <<"_">> \o IntToStr(cell[1]) \o <<"_">>
        \o IntToStr(cell[2]) \o <<"_", dir_name, "_", e, ".png">>

---------------------------------------------------------------------------
(* Inputs of a run *)

\* the lines a positions.txt is made of
LineChoices ==
    { <<>>,                                   \* an empty line
      <<"#", "c">>,                           \* a comment
      <<"p">>,                                \* text
      <<"0", ",", "0">>,                      \* the corner cell (0,0)
      <<" ", "5", ",", " ", "1", "0", " ">>,  \* the border cell (5,10), padded
      <<"1", ",", "2", ",", "3">>,            \* three fields
      <<"5", ",", "a">> }                     \* a field that is no integer

Files == UNION {[1..n -> LineChoices] : n \in 0..MaxLines}

\* parse_positions_txt of every positions.txt of the model, computed once, as
\* pairs of a file and its result
ParsedFiles == {<<f, parse_positions_txt(f)>> : f \in Files}

Parsed(f) == (CHOOSE p \in ParsedFiles : p[1] = f)[2]

\* every output file of the job that positions.txt describes
JobFiles(v, f) ==
    LET r == parse_positions_txt(f)
    IN  {OutFile(r.prefix, r.positions[i], DirsOf(v, r.positions[i])[d], Eyes[e]) :
            i \in 1..Len(r.positions), d \in 1..4, e \in 1..2}

\* what an earlier run with the same positions.txt may have left behind
StaleChoices(v, f) == { {}, {<<path, "stale">> : path \in JobFiles(v, f)} }

timeout_s == 300

SleepsPerSecond == 10

TimeoutTenths == timeout_s * SleepsPerSecond

---------------------------------------------------------------------------
(* The run *)

Failed(text) == [kind |-> "Failed", text |-> text]

Completed == [kind |-> "Capture completed", text |-> "Images saved"]

CurCell == positions[ci]

CurDir == DirsOf(variant, CurCell)[di]

CurRequest ==
    [file |-> OutFile(prefix, CurCell, CurDir, eye), cell |-> CurCell, dir |-> CurDir,
     eye |-> eye, outcome |-> "pending"]

LastFile == requests[Len(requests)].file

\* the eye geometry of the last request: the locals of the loop body of run in the
\* iteration that issued it
LastPose ==
    LET r == requests[Len(requests)]
        d == CHOOSE i \in 1..4 : DirsOf(variant, r.cell)[i] = r.dir
    IN  EyePose(r.cell, d, r.eye)

Exists(fs, path) == \E f \in fs : f[1] = path

\* a slip: the existing file is left where it is
NotRemoved(fs, path) == fs

\* os.remove(filename)
Removed(fs, path) == {f \in fs : f[1] # path}

\* the host writes the rendered image to path
Written(fs, path) == {f \in fs : f[1] # path} \cup {<<path, "run">>}

SetOutcome(o) == [requests EXCEPT ![Len(requests)].outcome = o]

\* a slip: the loop over the directions stops one short
AdvanceThreeDirections ==
    IF eye = "left" THEN /\ eye' = "right"
                         /\ UNCHANGED <<ci, di>>
    ELSE IF di < 3 THEN /\ eye' = "left"
                        /\ di' = di + 1
                        /\ UNCHANGED ci
    ELSE /\ eye' = "left"
         /\ di' = 1
         /\ ci' = ci + 1

\* the statement after a render returned: right eye, next direction, next cell
Advance ==
    IF eye = "left" THEN /\ eye' = "right"
                         /\ UNCHANGED <<ci, di>>
    ELSE IF di < 4 THEN /\ eye' = "left"
                        /\ di' = di + 1
                        /\ UNCHANGED ci
    ELSE /\ eye' = "left"
         /\ di' = 1
         /\ ci' = ci + 1

\* a slip: the handler falls through to the completion message
AbortThenComplete(text) ==
    /\ messages' = messages \o <<[kind |-> "Failed", text |-> text],
                                 [kind |-> "Capture completed", text |-> "Images saved"]>>
    /\ pc' = "done"

\* the except clause of run: one failure message, nothing re-raised
Abort(text) ==
    /\ messages' = Append(messages, Failed(text))
    /\ pc' = "done"

Init ==
    /\ variant \in Variants
    /\ file \in Files
    /\ hasDesign \in (IF variant = "CaptureView" THEN BOOLEAN ELSE {TRUE})
    /\ files \in StaleChoices(variant, file)
    /\ pc = "begin"
    /\ prefix = <<>>
    /\ positions = <<>>
    /\ ci = 1
    /\ di = 1
    /\ eye = "left"
    /\ cameras = 0
    /\ requests = <<>>
    /\ renderState = "idle"
    /\ elapsed = 0
    /\ delFailed = FALSE
    /\ messages = <<>>
    /\ op = "none"
    /\ args = <<>>
    /\ result = <<>>

\* run, up to the loop over the positions
Begin ==
    /\ pc = "begin"
    /\ LET r == Parsed(file)
       IN  IF r.raised
           THEN /\ Abort("positions.txt missing file_prefix on first line.")
                /\ UNCHANGED <<prefix, positions>>
           ELSE /\ prefix' = r.prefix
                /\ positions' = r.positions
                /\ pc' = "loop"
                /\ UNCHANGED messages
    /\ UNCHANGED <<variant, file, hasDesign, ci, di, eye, cameras, requests, files,
                   renderState, elapsed, delFailed>>
    /\ UNCHANGED pureVars

\* CaptureView.py set_camera_and_render up to the call of start_and_wait_local_render
SetCameraAndRender ==
    /\ variant = "CaptureView"
    /\ pc = "loop"
    /\ ci <= Len(positions)
    /\ cameras' = cameras + 1
    /\ IF hasDesign
       THEN /\ requests' = Append(requests, CurRequest)
            /\ pc' = "remove"
            /\ UNCHANGED messages
       ELSE /\ requests' = Append(requests, [CurRequest EXCEPT !.outcome = "no design"])
            /\ Abort("No active Fusion design.")
    /\ UNCHANGED <<variant, file, hasDesign, prefix, positions, ci, di, eye, files,
                   renderState, elapsed, delFailed>>
    /\ UNCHANGED pureVars

\* start_and_wait_local_render: the best-effort removal of an existing file
RemoveExisting ==
    /\ pc = "remove"
    /\ \/ /\ files' = Removed(files, LastFile)
          /\ delFailed' = FALSE
       \/ /\ Exists(files, LastFile)
          /\ files' = files
          /\ delFailed' = TRUE
    /\ pc' = "start"
    /\ UNCHANGED <<variant, file, hasDesign, prefix, positions, ci, di, eye, cameras,
                   requests, renderState, elapsed, messages>>
    /\ UNCHANGED pureVars

\* rendering.startLocalRender(filename, camera); t0 = time.time()
StartLocalRender ==
    /\ pc = "start"
    /\ renderState' = "rendering"
    /\ elapsed' = 0
    /\ pc' = "wait"
    /\ UNCHANGED <<variant, file, hasDesign, prefix, positions, ci, di, eye, cameras,
                   requests, files, delFailed, messages>>
    /\ UNCHANGED pureVars

\* the host finishes the render and writes the image
HostFinish ==
    /\ pc = "wait"
    /\ renderState = "rendering"
    /\ renderState' = "finished"
    /\ files' = Written(files, LastFile)
    /\ UNCHANGED <<variant, file, hasDesign, pc, prefix, positions, ci, di, eye, cameras,
                   requests, elapsed, delFailed, messages>>
    /\ UNCHANGED pureVars

\* the host gives the render up
HostFail ==
    /\ pc = "wait"
    /\ renderState = "rendering"
    /\ renderState' = "failed"
    /\ UNCHANGED <<variant, file, hasDesign, pc, prefix, positions, ci, di, eye, cameras,
                   requests, files, elapsed, delFailed, messages>>
    /\ UNCHANGED pureVars

\* the polling loop reads FinishedLocalRenderState: break, return
PollFinished ==
    /\ pc = "wait"
    /\ renderState = "finished"
    /\ requests' = SetOutcome("finished")
    /\ Advance
    /\ renderState' = "idle"
    /\ delFailed' = FALSE
    /\ elapsed' = 0
    /\ pc' = "loop"
    /\ UNCHANGED <<variant, file, hasDesign, prefix, positions, cameras, files, messages>>
    /\ UNCHANGED pureVars

\* a slip: the failed state ends the wait like the finished one
PollFailedContinues ==
    /\ pc = "wait"
    /\ renderState = "failed"
    /\ requests' = SetOutcome("failed")
    /\ Advance
    /\ renderState' = "idle"
    /\ delFailed' = FALSE
    /\ elapsed' = 0
    /\ pc' = "loop"
    /\ UNCHANGED <<variant, file, hasDesign, prefix, positions, cameras, files, messages>>
    /\ UNCHANGED pureVars

\* the polling loop reads FailedLocalRenderState: raise
PollFailed ==
    /\ pc = "wait"
    /\ renderState = "failed"
    /\ requests' = SetOutcome("failed")
    /\ Abort("Local render failed.")
    /\ UNCHANGED <<variant, file, hasDesign, prefix, positions, ci, di, eye, cameras,
                   files, renderState, elapsed, delFailed>>
    /\ UNCHANGED pureVars

\* a slip: the difference is taken the wrong way round, t0 - time.time() > timeout_s
PollTimedOutReversed ==
    /\ pc = "wait"
    /\ renderState = "rendering"
    /\ 0 - elapsed > TimeoutTenths
    /\ requests' = SetOutcome("timeout")
    /\ Abort("Local render timed out.")
    /\ UNCHANGED <<variant, file, hasDesign, prefix, positions, ci, di, eye, cameras,
                   files, renderState, elapsed, delFailed>>
    /\ UNCHANGED pureVars

\* the polling loop finds time.time() - t0 > timeout_s: raise
PollTimedOut ==
    /\ pc = "wait"
    /\ renderState = "rendering"
    /\ elapsed > TimeoutTenths
    /\ requests' = SetOutcome("timeout")
    /\ Abort("Local render timed out.")
    /\ UNCHANGED <<variant, file, hasDesign, prefix, positions, ci, di, eye, cameras,
                   files, renderState, elapsed, delFailed>>
    /\ UNCHANGED pureVars

\* adsk.doEvents(); time.sleep(0.1): the clock advances by one sleep; after
\* MaxShortPolls sleeps the many sleeps of a long wait up to timeout_s exactly are
\* taken as one step, and the sleep after that is a single one again
PollSleep ==
    /\ pc = "wait"
    /\ renderState = "rendering"
    /\ elapsed <= TimeoutTenths
    /\ elapsed' = (IF elapsed < MaxShortPolls \/ elapsed >= TimeoutTenths
                   THEN elapsed + 1 ELSE TimeoutTenths)
    /\ UNCHANGED <<variant, file, hasDesign, pc, prefix, positions, ci, di, eye, cameras,
                   requests, files, renderState, delFailed, messages>>
    /\ UNCHANGED pureVars

\* capture.py set_camera_and_capture up to the call of saveAsImageFile
SetCameraAndCapture ==
    /\ variant = "capture"
    /\ pc = "loop"
    /\ ci <= Len(positions)
    /\ cameras' = cameras + 1
    /\ requests' = Append(requests, CurRequest)
    /\ pc' = "capture"
    /\ UNCHANGED <<variant, file, hasDesign, prefix, positions, ci, di, eye, files,
                   renderState, elapsed, delFailed, messages>>
    /\ UNCHANGED pureVars

\* vp.saveAsImageFile(out_path, IMG_W, IMG_H) returns
CaptureSaved ==
    /\ pc = "capture"
    /\ files' = Written(files, LastFile)
    /\ requests' = SetOutcome("finished")
    /\ Advance
    /\ pc' = "loop"
    /\ UNCHANGED <<variant, file, hasDesign, prefix, positions, cameras, renderState,
                   elapsed, delFailed, messages>>
    /\ UNCHANGED pureVars

\* vp.saveAsImageFile raises
CaptureRaised ==
    /\ pc = "capture"
    /\ requests' = SetOutcome("failed")
    /\ Abort("saveAsImageFile failed.")
    /\ UNCHANGED <<variant, file, hasDesign, prefix, positions, ci, di, eye, cameras,
                   files, renderState, elapsed, delFailed>>
    /\ UNCHANGED pureVars

\* the loop over the positions is exhausted: the completion message
Complete ==
    /\ pc = "loop"
    /\ ci > Len(positions)
    /\ messages' = Append(messages, Completed)
    /\ pc' = "done"
    /\ UNCHANGED <<variant, file, hasDesign, prefix, positions, ci, di, eye, cameras,
                   requests, files, renderState, elapsed, delFailed>>
    /\ UNCHANGED pureVars

Next ==
    \/ Begin
    \/ SetCameraAndRender
    \/ RemoveExisting
    \/ StartLocalRender
    \/ HostFinish
    \/ HostFail
    \/ PollFinished
    \/ PollFailed
    \/ PollTimedOut
    \/ PollSleep
    \/ SetCameraAndCapture
    \/ CaptureSaved
    \/ CaptureRaised
    \/ Complete

Spec == Init /\ [][Next]_vars

\* the steps of the script itself; HostFinish and HostFail are the host's
ScriptStep ==
    \/ Begin
    \/ SetCameraAndRender
    \/ RemoveExisting
    \/ StartLocalRender
    \/ PollFinished
    \/ PollFailed
    \/ PollTimedOut
    \/ PollSleep
    \/ SetCameraAndCapture
    \/ CaptureSaved
    \/ CaptureRaised
    \/ Complete

\* the run on a positions.txt of at most MaxLiveLines lines
InitLive ==
    /\ Init
    /\ Len(file) <= MaxLiveLines

\* the script keeps running: every call it makes returns and time.sleep(0.1)
\* lets the clock advance; nothing is assumed of the host's render
SpecLive == InitLive /\ [][Next]_vars /\ WF_vars(ScriptStep)

---------------------------------------------------------------------------
(* The geometry functions applied to drawn inputs *)

KeyChoices == {-2, 0, 1, 5}

ValueChoices == {Dec3(8039), Dec3(16336), Dec3(55519)}

\* every non-empty knot map over the chosen keys and values, and the two tables
KnotMaps ==
    UNION {[K -> ValueChoices] : K \in (SUBSET KeyChoices) \ {{}}}
        \cup {X_FROM_GRID_Y_IN, Y_FROM_GRID_X_IN}

Indices == (-MaxIndex)..MaxIndex

GridIndices == (-1)..GridMax

\* the centre of a cell in centimetres, as run computes it
CentreCm(gx, gy) ==
    LET m == grid_to_model_in(gx, gy)
    IN  [cx |-> inches_to_cm(m.mx), cy |-> inches_to_cm(m.my), cz |-> inches_to_cm(EYE_Z_IN)]

InitPure ==
    /\ variant = "CaptureView"
    /\ file = <<>>
    /\ hasDesign = TRUE
    /\ files = {}
    /\ pc = "off"
    /\ prefix = <<>>
    /\ positions = <<>>
    /\ ci = 1
    /\ di = 1
    /\ eye = "left"
    /\ cameras = 0
    /\ requests = <<>>
    /\ renderState = "idle"
    /\ elapsed = 0
    /\ delFailed = FALSE
    /\ messages = <<>>
    /\ \/ /\ op = "interp"
          /\ args \in [index : Indices, knot_map : KnotMaps]
       \/ /\ op = "grid"
          /\ args \in [cells : [1..2 -> GridIndices \X GridIndices]]
    /\ result = <<>>

\* one call of _interp_linear on the drawn index and knot map
InterpStep ==
    /\ pc = "off"
    /\ op = "interp"
    /\ result = <<>>
    /\ result' = <<InterpLinear(args.index, args.knot_map)>>
    /\ UNCHANGED <<op, args>>
    /\ UNCHANGED runVars

\* one call of grid_to_model_in, and of inches_to_cm on its result, on the next
\* of the drawn cells
GridStep ==
    /\ pc = "off"
    /\ op = "grid"
    /\ Len(result) < Len(args.cells)
    /\ LET c == args.cells[Len(result) + 1]
       IN  result' = Append(result, [inches |-> grid_to_model_in(c[1], c[2]),
                                     cm |-> CentreCm(c[1], c[2])])
    /\ UNCHANGED <<op, args>>
    /\ UNCHANGED runVars

NextPure ==
    \/ InterpStep
    \/ GridStep

SpecPure == InitPure /\ [][NextPure]_vars

---------------------------------------------------------------------------
(* Claims about the grid interpolator *)

Min(S) == CHOOSE x \in S : \A y \in S : x <= y

Max(S) == CHOOSE x \in S : \A y \in S : x >= y

\* the piecewise-linear map through the knots, clamped at both ends:
\* v0 + (index - k0)/(k1 - k0) * (v1 - v0) between adjacent keys k0 < index < k1
PiecewiseLinear(index, km) ==
    LET K == DOMAIN km
    IN  IF index \in K THEN km[index]
        ELSE IF index <= Min(K) THEN km[Min(K)]
        ELSE IF index >= Max(K) THEN km[Max(K)]
        ELSE LET k0 == Max({k \in K : k < index})
                 k1 == Min({k \in K : k > index})
             IN  RAdd(km[k0], RMul(RDiv(RInt(index - k0), RInt(k1 - k0)),
                                   RSub(km[k1], km[k0])))

\* |a - b| <= tol
Near(a, b, tol) == RLe(RSub(a, b), tol) /\ RLe(RSub(b, a), tol)

Tolerance == Rat(1, 1000)

ScenarioKnots == (0 :> Dec3(8039)) @@ (1 :> Dec3(16336)) @@ (5 :> Dec3(55519))

InterpDone == op = "interp" /\ result # <<>>

ScenarioDone == InterpDone /\ args.knot_map = ScenarioKnots /\ args.index = 3

\* C6 as stated: with knots {0: 8.039, 1: 16.336, 5: 55.519}, interpolate(3, knots)
\* is approximately 27.6305 = 8.039 + (3-1)/(5-1) * (55.519-16.336).
C6_Stated ==
    ScenarioDone =>
        /\ Near(result[1].value, Rat(276305, 10000), Tolerance)
        /\ Near(result[1].value,
                RAdd(Dec3(8039), RMul(Rat(3 - 1, 5 - 1), RSub(Dec3(55519), Dec3(16336)))),
                Tolerance)

\* C6 amended: with knots {0: 8.039, 1: 16.336, 5: 55.519}, interpolate(3, knots)
\* is 35.9275 = 16.336 + (3-1)/(5-1) * (55.519-16.336): the base value is the one
\* stored at the lower bracketing key 1, not the one at key 0.
C6_Interp3 ==
    ScenarioDone =>
        /\ Near(result[1].value, Rat(359275, 10000), Tolerance)
        /\ Near(result[1].value,
                RAdd(Dec3(16336), RMul(Rat(3 - 1, 5 - 1), RSub(Dec3(55519), Dec3(16336)))),
                Tolerance)
        /\ result[1].via = "interp"

C6_Witness == ScenarioDone

\* C7: for every non-empty knot map with distinct integer keys and every integer
\* index, _interp_linear returns the value of the clamped piecewise-linear map
\* through the knots (the stored value at a key, the boundary value at or beyond
\* the smallest and largest key, the linear blend between the adjacent bracketing
\* keys otherwise), and never leaves by the "no bracketing pair" fallback.
C7_PiecewiseLinear ==
    InterpDone =>
        /\ result[1].value = PiecewiseLinear(args.index, args.knot_map)
        /\ result[1].via # "fallback"
        /\ result[1].via = "key" <=> args.index \in DOMAIN args.knot_map

\* an index strictly between two keys, a quarter of the way, with different values
C7_Witness ==
    /\ InterpDone
    /\ result[1].via = "interp"
    /\ args.index = 2
    /\ DOMAIN args.knot_map = {-2, 1, 5}
    /\ args.knot_map[1] # args.knot_map[5]

\* C10: grid_to_model_in swaps the axes: model X is the interpolation of gy over
\* the X table, model Y the interpolation of gx over the Y table, model Z the
\* grid-plane height; two cells with the same gy have the same model X and two
\* cells with the same gx the same model Y; inches_to_cm multiplies by 254/100.
C10_AxisSwap ==
    op = "grid" =>
        /\ \A i \in 1..Len(result) :
              LET c == args.cells[i]
                  m == result[i].inches
                  cm == result[i].cm
              IN  /\ m.mx = PiecewiseLinear(c[2], X_FROM_GRID_Y_IN)
                  /\ m.my = PiecewiseLinear(c[1], Y_FROM_GRID_X_IN)
                  /\ m.mz = Dec3(33577)
                  /\ RDiv(cm.cx, m.mx) = <<127, 50>>
                  /\ RDiv(cm.cy, m.my) = <<127, 50>>
        /\ \A i, j \in 1..Len(result) :
              /\ args.cells[i][2] = args.cells[j][2]
                    => result[i].inches.mx = result[j].inches.mx
              /\ args.cells[i][1] = args.cells[j][1]
                    => result[i].inches.my = result[j].inches.my

\* two cells in the same row gy = 3 whose gx differ: model Y differs, model X not
C10_Witness ==
    /\ op = "grid"
    /\ Len(result) = 2
    /\ args.cells[1] = <<0, 3>>
    /\ args.cells[2] = <<5, 3>>
    /\ result[1].inches.my # result[2].inches.my
    /\ result[1].inches.mx = result[2].inches.mx

---------------------------------------------------------------------------
(* Claims about the run *)

Succeeded(k) == requests[k].outcome = "finished"

AllSucceeded == \A k \in 1..Len(requests) : Succeeded(k)

\* no line of the file is, once stripped, non-empty and not a comment
NoPrefixLine(f) ==
    \A i \in 1..Len(f) : LET l == Strip(f[i]) IN l = <<>> \/ l[1] = "#"

\* the name "{prefix}_{gx}_{gy}_{direction}_{eye}.png"
ImageName(pfx, cell, d, e) ==
    pfx \o <<"_">> \o IntToStr(cell[1]) \o <<"_">> \o IntToStr(cell[2])
        \o <<"_", d, "_", e, ".png">>

\* the last path component of a request's output file
BaseName(path) ==
    LET cut == Max({i \in 1..Len(path) : path[i] = "/"})
    IN  SubSeq(path, cut + 1, Len(path))

CornerCell(cell) == (cell[1] = 0 \/ cell[1] = 10) /\ (cell[2] = 0 \/ cell[2] = 10)

CardinalLabels == <<"north", "east", "south", "west">>

UpperDiagonalLabels == <<"NE", "SE", "SW", "NW">>

LowerDiagonalLabels == <<"ne", "se", "sw", "nw">>

\* the k-th of the 8*n requests of a job: cell (k-1) div 8, direction
\* ((k-1) mod 8) div 2 of the cell's four, left eye for odd k
ExpectedRequest(k, diagonal) ==
    LET cell == positions[((k - 1) \div 8) + 1]
        labels == IF CornerCell(cell) THEN diagonal ELSE CardinalLabels
        d == labels[(((k - 1) % 8) \div 2) + 1]
        e == IF k % 2 = 1 THEN "left" ELSE "right"
    IN  [cell |-> cell, dir |-> d, eye |-> e, name |-> ImageName(prefix, cell, d, e)]

InOrder(diagonal) ==
    /\ Len(requests) <= 8 * Len(positions)
    /\ \A k \in 1..Len(requests) :
          LET x == ExpectedRequest(k, diagonal)
          IN  /\ requests[k].cell = x.cell
              /\ requests[k].dir = x.dir
              /\ requests[k].eye = x.eye
              /\ BaseName(requests[k].file) = x.name
    /\ (pc = "done" /\ ~NoPrefixLine(file) /\ AllSucceeded)
          => Len(requests) = 8 * Len(positions)

C2_CornerDirections ==
    /\ \A gx \in GridIndices, gy \in GridIndices :
          is_corner(gx, gy) <=> ((gx = 0 \/ gx = 10) /\ (gy = 0 \/ gy = 10))
    /\ is_corner(0, 0)
    /\ ~is_corner(5, 0)
    /\ \A k \in 1..Len(requests) :
          LET diag == requests[k].dir \in {"NE", "SE", "SW", "NW", "ne", "se", "sw", "nw"}
              card == requests[k].dir \in {"north", "east", "south", "west"}
          IN  /\ diag <=> CornerCell(requests[k].cell)
              /\ card <=> ~CornerCell(requests[k].cell)
    /\ \A j, k \in 1..Len(requests) :
          ((j - 1) \div 8 = (k - 1) \div 8)
             => ((requests[j].dir \in {"north", "east", "south", "west"})
                  <=> (requests[k].dir \in {"north", "east", "south", "west"}))

\* a run that rendered the border cell (5,10) and then the corner cell (0,0)
C2_Witness ==
    /\ Len(requests) = 16
    /\ requests[1].cell = <<5, 10>>
    /\ requests[1].dir = "north"
    /\ requests[16].cell = <<0, 0>>
    /\ requests[16].dir \in {"NW", "nw"}

HostFailure(k) == requests[k].outcome \in {"failed", "timeout"}

AbortedAt(k) ==
    /\ k = Len(requests)
    /\ cameras = k
    /\ pc = "done"
    /\ Len(messages) = 1
    /\ messages[1].kind = "Failed"

\* C3 as stated: when the host reports the k-th render as failed, or it times out,
\* no later request is issued, the failure is shown as the one fatal error, and
\* the output of every render completed before k is still in place.
C3_Stated ==
    \A k \in 1..Len(requests) :
        HostFailure(k) =>
            /\ AbortedAt(k)
            /\ \A j \in 1..(k - 1) : <<requests[j].file, "run">> \in files

\* C3 amended: the same, except that an earlier render to the very path of the
\* k-th request (the cell is listed twice) need not be in place: its file was
\* removed before the k-th render was started.
C3_AbortOnFailure ==
    \A k \in 1..Len(requests) :
        HostFailure(k) =>
            /\ AbortedAt(k)
            /\ \A j \in 1..(k - 1) :
                  requests[j].file # requests[k].file
                     => <<requests[j].file, "run">> \in files

\* the third render times out after two completed ones
C3_Witness ==
    /\ Len(requests) = 3
    /\ requests[3].outcome = "timeout"
    /\ Succeeded(1)
    /\ Succeeded(2)
    /\ pc = "done"

\* C4: when positions.txt has no prefix line (no line that is neither empty nor a
\* comment), parse_positions_txt raises: the run issues no render request and
\* configures no camera at any time, and ends with the failure message.
C4_MissingPrefix ==
    NoPrefixLine(file) =>
        /\ requests = <<>>
        /\ cameras = 0
        /\ renderState = "idle"
        /\ pc \in {"begin", "done"}
        /\ pc = "done" =>
              messages = <<[kind |-> "Failed",
                            text |-> "positions.txt missing file_prefix on first line."]>>

\* a file of comments and empty lines only, after the run has ended
C4_Witness ==
    /\ NoPrefixLine(file)
    /\ Len(file) = 2
    /\ pc = "done"

CommaCount(l) == Cardinality({i \in 1..Len(l) : l[i] = ","})

\* the line is not empty, not a comment, and is two integers around one comma
IsCellLine(l) ==
    /\ l # <<>>
    /\ l[1] # "#"
    /\ CommaCount(l) = 1
    /\ LET c == CHOOSE i \in 1..Len(l) : l[i] = ","
       IN  /\ IntParses(SubSeq(l, 1, c - 1))
           /\ IntParses(SubSeq(l, c + 1, Len(l)))

CellOfLine(l) ==
    LET c == CHOOSE i \in 1..Len(l) : l[i] = ","
    IN  <<IntOf(SubSeq(l, 1, c - 1)), IntOf(SubSeq(l, c + 1, Len(l)))>>

\* the cells of the lines after the first that are cell lines, in file order
RECURSIVE CellsOf(_)
CellsOf(ls) ==
    IF ls = <<>> THEN <<>>
    ELSE (IF IsCellLine(Strip(Head(ls))) THEN <<CellOfLine(Strip(Head(ls)))>> ELSE <<>>)
            \o CellsOf(Tail(ls))

PrefixOnLine1 == file # <<>> /\ ~NoPrefixLine(<<file[1]>>)

\* C5: when line 1 of positions.txt is the prefix, the job's cells are exactly the
\* later lines that parse as two comma-separated integers, in file order; every
\* other line is skipped and raises nothing; and when no line parses the job has
\* no cell, the run issues no request and ends with the completion message.
C5_MalformedLinesSkipped ==
    (PrefixOnLine1 /\ pc # "begin") =>
        /\ prefix = Strip(file[1])
        /\ positions = CellsOf(Tail(file))
        /\ \A i \in 1..Len(messages) :
              messages[i].text # "positions.txt missing file_prefix on first line."
        /\ CellsOf(Tail(file)) = <<>> =>
              /\ requests = <<>>
              /\ pc = "done" => messages = <<[kind |-> "Capture completed",
                                              text |-> "Images saved"]>>

\* a three-field line is skipped and the cell line after it is kept
C5_Witness ==
    /\ PrefixOnLine1
    /\ Len(file) = 3
    /\ file[2] = <<"1", ",", "2", ",", "3">>
    /\ file[3] = <<" ", "5", ",", " ", "1", "0", " ">>
    /\ positions = <<(<<5, 10>>)>>
    /\ pc = "done"

\* C8: every run ends having shown exactly one message, the completion message iff
\* parsing and every render request succeeded and the failure message otherwise;
\* nothing is shown before the end, and the two messages are never both shown.
C8_OneMessage ==
    /\ pc # "done" => messages = <<>>
    /\ pc = "done" =>
          /\ Len(messages) = 1
          /\ messages[1].kind \in {"Capture completed", "Failed"}
          /\ messages[1].kind = "Capture completed"
                <=> (~NoPrefixLine(file) /\ AllSucceeded)
    /\ \A i, j \in 1..Len(messages) : messages[i].kind = messages[j].kind

\* a run that fails at its second request, after one completed render
C8_Witness ==
    /\ pc = "done"
    /\ Len(requests) = 2
    /\ Succeeded(1)
    /\ ~Succeeded(2)
    /\ messages[1].kind = "Failed"

\* C9 (CaptureView.py): when startLocalRender is about to be called, no file is
\* at the request's output path unless its removal failed, and neither a missing
\* file nor a failed removal has aborted the request; as long as the host has not
\* finished, the path stays empty; and after a run whose renders all succeeded
\* the file at every path rendered to was written by this run, none is stale.
C9_RemovedBeforeRender ==
    /\ pc = "start" =>
          /\ delFailed \/ ~Exists(files, LastFile)
          /\ requests[Len(requests)].outcome = "pending"
          /\ messages = <<>>
    /\ (pc = "wait" /\ renderState # "finished" /\ ~delFailed) => ~Exists(files, LastFile)
    /\ (variant = "CaptureView" /\ pc = "done" /\ AllSucceeded) =>
          \A k \in 1..Len(requests) :
              /\ <<requests[k].file, "run">> \in files
              /\ <<requests[k].file, "stale">> \notin files

\* the stale file of the first request has been removed, the others are still there
C9_Witness ==
    /\ pc = "start"
    /\ Len(requests) = 1
    /\ ~delFailed
    /\ ~Exists(files, LastFile)
    /\ \E f \in files : f[2] = "stale"

---------------------------------------------------------------------------
(* Claims about the eye geometry *)

Dot(u, v) == SAdd(SMul(u[1], v[1]), SMul(u[2], v[2]))

\* half of the eye separation of 0.5 in, in centimetres: 0.25 * 2.54 = 0.635
HalfBaseCm == SRat(Rat(635, 1000))

\* the centre of a cell in centimetres, from the knot tables with the axes swapped
CentreOf(cell) ==
    <<SRat(RMul(Rat(254, 100), PiecewiseLinear(cell[2], X_FROM_GRID_Y_IN))),
      SRat(RMul(Rat(254, 100), PiecewiseLinear(cell[1], Y_FROM_GRID_X_IN)))>>

\* run has just computed the eye points of a request and handed one to the camera
CameraJustSet ==
    /\ requests # <<>>
    /\ \/ pc \in {"remove", "capture"}
       \/ requests[Len(requests)].outcome = "no design"

\* C11: for every cell and direction the run renders, with right = (forward.y,
\* -forward.x) and h half the eye separation in centimetres: left.xy = centre.xy -
\* right*h and right.xy = centre.xy + right*h, so left.xy + right.xy = 2*centre.xy;
\* the displacement from the left to the right eye is perpendicular to the base
\* forward direction, a unit vector; both eyes have the z of the centre, and the
\* point handed to the camera is the position of the eye being rendered.
C11_MirrorEyes ==
    CameraJustSet =>
        LET r == requests[Len(requests)]
            pose == LastPose
            c == <<pose.cx, pose.cy>>
            f == pose.base_fwd2
            right == <<f[2], SNeg(f[1])>>
            l == pose.left_eye_xy
            rt == pose.right_eye_xy
            two == SRat(RInt(2))
        IN  /\ c = CentreOf(r.cell)
            /\ Dot(f, f) = SOne
            /\ l = <<SSub(c[1], SMul(right[1], HalfBaseCm)),
                     SSub(c[2], SMul(right[2], HalfBaseCm))>>
            /\ rt = <<SAdd(c[1], SMul(right[1], HalfBaseCm)),
                      SAdd(c[2], SMul(right[2], HalfBaseCm))>>
            /\ SAdd(l[1], rt[1]) = SMul(two, c[1])
            /\ SAdd(l[2], rt[2]) = SMul(two, c[2])
            /\ Dot(<<SSub(rt[1], l[1]), SSub(rt[2], l[2])>>, f) = SZero
            /\ pose.cz = SRat(RMul(Rat(254, 100), EYE_Z_IN))
            /\ pose.eye_pt = (IF r.eye = "left" THEN <<l[1], l[2], pose.cz>>
                              ELSE <<rt[1], rt[2], pose.cz>>)

\* the right eye of a corner cell, looking along a diagonal, is being rendered: the
\* forward vector has irrational components and the eye is off the centre in x and y
C11_Witness ==
    /\ CameraJustSet
    /\ CornerCell(requests[Len(requests)].cell)
    /\ requests[Len(requests)].eye = "right"
    /\ LastPose.base_fwd2[1][2] # RInt(0)
    /\ LastPose.base_fwd2[2][2] # RInt(0)
    /\ LastPose.eye_pt[1] # LastPose.cx
    /\ LastPose.eye_pt[2] # LastPose.cy
    /\ LastPose.eye_pt[3] = LastPose.cz

---------------------------------------------------------------------------
(* Claims about the wait for a render *)

\* a call of start_and_wait_local_render is in progress
InRenderCall == pc \in {"remove", "start", "wait"}

\* what the calls of start_and_wait_local_render have come to: the requests before
\* the last returned normally; the call in progress has polled for at most one sleep
\* past 300 s; a call that is over ended with the host's finished state and no
\* failure message, with its failed state and "Local render failed.", or, the host
\* still rendering and more than 300 s (3000 tenths) gone, with "Local render timed
\* out."
RenderCallOutcomes ==
    IF variant = "CaptureView" /\ requests # <<>>
    THEN
        LET n == Len(requests)
            r == requests[n]
        IN  /\ \A k \in 1..(n - 1) : requests[k].outcome = "finished"
            /\ InRenderCall =>
                  /\ r.outcome = "pending"
                  /\ messages = <<>>
                  /\ pc = "wait" => elapsed <= 3001
            /\ ~InRenderCall =>
                  /\ r.outcome \in {"finished", "failed", "timeout", "no design"}
                  /\ r.outcome = "finished" =>
                        /\ pc \in {"loop", "done"}
                        /\ messages \in {<<>>, <<Completed>>}
                  /\ r.outcome = "failed" =>
                        /\ pc = "done"
                        /\ renderState = "failed"
                        /\ messages = <<Failed("Local render failed.")>>
                  /\ r.outcome = "timeout" =>
                        /\ pc = "done"
                        /\ renderState = "rendering"
                        /\ elapsed > 3000
                        /\ messages = <<Failed("Local render timed out.")>>
    ELSE TRUE

\* C12: every call of start_and_wait_local_render that is in progress comes to an
\* end, whatever the host does, as long as the script keeps running and its sleeps
\* let the clock advance; and at all times the calls have ended in exactly one of
\* the three ways: a normal return on the finished state, "Local render failed." on
\* the failed state, "Local render timed out." after more than 300 s with the host
\* still rendering; a request is issued only after all earlier calls returned normally.
C12_RenderCallTerminates ==
    /\ InRenderCall ~> ~InRenderCall
    /\ []RenderCallOutcomes

\* the first render returned normally, the host never finished nor failed the
\* second, and the run ended with the time-out one sleep past 300 s
C12_Witness ==
    /\ variant = "CaptureView"
    /\ Len(requests) = 2
    /\ requests[1].outcome = "finished"
    /\ requests[2].outcome = "timeout"
    /\ renderState = "rendering"
    /\ elapsed = 3001
    /\ pc = "done"
    /\ messages = <<Failed("Local render timed out.")>>

=============================================================================
